---------------------------- MODULE Spec2Model ----------------------------
(***************************************************************************)
(* A model of auto-upgrade-testing's provisioning-specification factory    *)
(* (upgrade_testing/provisioning/_provisionconfig.py) and of its test      *)
(* environment preparer (upgrade_testing/preparation/_hostprep.py).        *)
(*                                                                         *)
(* Python values are modelled as follows.  A dict is a function whose      *)
(* DOMAIN is its set of keys; a list is a sequence; an object is a record  *)
(* with a "class" field; a call either returns a value or raises, which is *)
(* a record built by Return or Raise.  A path is the sequence of its       *)
(* components, os.path.join appends to it.                                 *)
(***************************************************************************)
EXTENDS Integers, Sequences, FiniteSets, TLC

VARIABLES
    pc,            \* "start", "failed", "constructed" (the factory); "ready", "in_scope" (the preparer)
    entry,         \* the factory entry point that was called
    arg,           \* the mapping that was passed to it
    provisioning,  \* the ProvisionSpecification it returned, or Null
    raised,        \* the exception the last call let reach its caller, or Null
    testsuite,     \* the argument of the current prepare_test_environment call
    fs,            \* the filesystem: path -> directory or file
    run,           \* the state of the current prepare_test_environment call (see NewRun)
    yielded,       \* the TestrunTempFiles the scope was given, or Null
    fault,         \* the setup step whose filesystem call failed in the current call, or NoFault
    body_exc,      \* the exception the scope body raised in the current call, or Null
    allocated,     \* the directories tempfile.mkdtemp created, over all calls
    rmtree_calls,  \* directory -> number of shutil.rmtree calls that removed it
    runs           \* number of prepare_test_environment calls started

vars == <<pc, entry, arg, provisioning, raised, testsuite, fs, run,
          yielded, fault, body_exc, allocated, rmtree_calls, runs>>

provVars == <<entry, arg, provisioning>>
prepVars == <<testsuite, fs, run, yielded, fault, body_exc, allocated, rmtree_calls, runs>>

-----------------------------------------------------------------------------
(* Bounds of the model *)

MaxLen == 2       \* longest releases / revisions list
MaxScripts == 2   \* longest pre_upgrade_scripts / post_upgrade_tests list
MaxRuns == 2      \* prepare_test_environment calls in one behaviour

-----------------------------------------------------------------------------
(* Python values *)

None == "<None>"                       \* None where a string is expected
Null == [class |-> "NoneType"]         \* None where an object is expected
Unbound == <<"<unbound>">>             \* a local variable that was never assigned

Return(v) == [raises |-> FALSE, val |-> v]
Raise(e) == [raises |-> TRUE, exc |-> e]

KeyError(k) == [class |-> "KeyError", key |-> k]
IndexError == [class |-> "IndexError", msg |-> "list index out of range"]
ValueError(m) == [class |-> "ValueError", msg |-> m]
OSError(step) == [class |-> "OSError", at |-> step]
UnboundLocalError(name) == [class |-> "UnboundLocalError", name |-> name]

\* str(KeyError(k)) is repr(k)
StrKeyError(e) == "'" \o e.key \o "'"

\* d[k]
GetItem(d, k) == IF k \in DOMAIN d THEN Return(d[k]) ELSE Raise(KeyError(k))

\* d.get(k, default)
DictGet(d, k, default) == IF k \in DOMAIN d THEN d[k] ELSE default

\* l[i] for a Python list l and a Python index i (0-based, negative from the end)
ListIndex(l, i) ==
    LET at == IF i < 0 THEN Len(l) + i + 1 ELSE i + 1
    IN  IF at \in 1..Len(l) THEN Return(l[at]) ELSE Raise(IndexError)

SeqsUpTo(S, n) == UNION {[1..k -> S] : k \in 0..n}

-----------------------------------------------------------------------------
(* upgrade_testing/provisioning/backends: the backend handles, external     *)
(* collaborators of the factory.  A handle keeps its constructor arguments. *)

LXCBackend(release, distribution) ==
    [class |-> "LXCBackend", release |-> release, distribution |-> distribution]

DeviceBackend(channel, revision, password, serial) ==
    [class |-> "DeviceBackend", channel |-> channel, revision |-> revision,
     password |-> password, serial |-> serial]

-----------------------------------------------------------------------------
(* class LXCProvisionSpecification *)

LXC_system_states(self) == Return(self.releases)

LXC_initial_state(self) == ListIndex(self.releases, 0)

\* a variant that reads the first release
LXC_final_state_first(self) == ListIndex(self.releases, 0)

LXC_final_state(self) == ListIndex(self.releases, -1)

\* a variant that builds no backend handle, so never reads initial_state
LXC_init_no_backend(provision_config) ==
    LET releases == GetItem(provision_config, "releases")
    IN  IF releases.raises THEN releases
        ELSE Return([class |-> "LXCProvisionSpecification",
                     distribution |-> DictGet(provision_config, "distribution", "ubuntu"),
                     releases |-> releases.val,
                     backend |-> Null])

LXC_init(provision_config) ==
    LET distribution == DictGet(provision_config, "distribution", "ubuntu")
        releases == GetItem(provision_config, "releases")
    IN  IF releases.raises THEN releases
        ELSE LET self == [class |-> "LXCProvisionSpecification",
                          distribution |-> distribution,
                          releases |-> releases.val]
                 initial == LXC_initial_state(self)
             IN  IF initial.raises THEN initial
                 ELSE Return([class |-> self.class,
                              distribution |-> self.distribution,
                              releases |-> self.releases,
                              backend |-> LXCBackend(initial.val, self.distribution)])

-----------------------------------------------------------------------------
(* class DeviceProvisionSpecification *)

\* a variant that formats the two fields in the other order
_construct_state_string_swapped(self, rev) == ToString(rev) \o ":" \o self.channel

\* '{channel}:{rev}'.format(channel=self.channel, rev=rev)
_construct_state_string(self, rev) == self.channel \o ":" \o ToString(rev)

Device_system_states(self) ==
    Return([i \in 1..Len(self.revisions) |->
                _construct_state_string(self, self.revisions[i])])

Device_initial_state(self) ==
    LET rev == ListIndex(self.revisions, 0)
    IN  IF rev.raises THEN rev ELSE Return(_construct_state_string(self, rev.val))

Device_final_state(self) ==
    LET rev == ListIndex(self.revisions, -1)
    IN  IF rev.raises THEN rev ELSE Return(_construct_state_string(self, rev.val))

\* a variant without the except clause: the KeyError is not converted
Device_required_unconverted(provision_config) ==
    LET channel == GetItem(provision_config, "channel")
        revisions == GetItem(provision_config, "revisions")
    IN  IF channel.raises THEN channel
        ELSE IF revisions.raises THEN revisions
        ELSE Return([channel |-> channel.val, revisions |-> revisions.val])

\* the try block of __init__: the two required keys, a KeyError turned into
\* a ValueError
Device_required(provision_config) ==
    LET channel == GetItem(provision_config, "channel")
        revisions == GetItem(provision_config, "revisions")
    IN  IF channel.raises
        THEN Raise(ValueError("Missing config detail: " \o StrKeyError(channel.exc)))
        ELSE IF revisions.raises
        THEN Raise(ValueError("Missing config detail: " \o StrKeyError(revisions.exc)))
        ELSE Return([channel |-> channel.val, revisions |-> revisions.val])

Device_init(provision_config) ==
    LET required == Device_required(provision_config)
    IN  IF required.raises THEN required
        ELSE LET self == [class |-> "DeviceProvisionSpecification",
                          channel |-> required.val.channel,
                          revisions |-> required.val.revisions]
                 serial == DictGet(provision_config, "serial", None)
                 password == DictGet(provision_config, "password", None)
                 initial == Device_initial_state(self)
             IN  IF initial.raises THEN initial
                 ELSE Return([class |-> self.class,
                              channel |-> self.channel,
                              revisions |-> self.revisions,
                              backend |-> DeviceBackend(self.channel, initial.val,
                                                        password, serial)])

-----------------------------------------------------------------------------
(* The properties of a ProvisionSpecification, dispatched on its class *)

system_states(self) ==
    IF self.class = "LXCProvisionSpecification" THEN LXC_system_states(self)
    ELSE Device_system_states(self)

initial_state(self) ==
    IF self.class = "LXCProvisionSpecification" THEN LXC_initial_state(self)
    ELSE Device_initial_state(self)

final_state(self) ==
    IF self.class = "LXCProvisionSpecification" THEN LXC_final_state(self)
    ELSE Device_final_state(self)

-----------------------------------------------------------------------------
(* The factory *)

\* a variant with the two classes exchanged
spec_map_exchanged ==
    [lxc |-> "DeviceProvisionSpecification", device |-> "LXCProvisionSpecification"]

spec_map ==
    [lxc |-> "LXCProvisionSpecification", device |-> "DeviceProvisionSpecification"]

get_specification_type(spec_name) == GetItem(spec_map, spec_name)

\* spec_type(provision_config): the call of the class that was looked up
Construct(spec_type, provision_config) ==
    IF spec_type = "LXCProvisionSpecification" THEN LXC_init(provision_config)
    ELSE Device_init(provision_config)

from_testspec(spec) ==
    LET prov == GetItem(spec, "provisioning")
    IN  IF prov.raises THEN prov
        ELSE LET backend_name == GetItem(prov.val, "backend")
             IN  IF backend_name.raises THEN backend_name
                 ELSE LET spec_type == get_specification_type(backend_name.val)
                      IN  IF spec_type.raises THEN spec_type
                          ELSE Construct(spec_type.val, prov.val)

from_provisionspec(spec) ==
    LET backend_name == GetItem(spec, "backend")
    IN  IF backend_name.raises THEN backend_name
        ELSE LET spec_type == get_specification_type(backend_name.val)
             IN  IF spec_type.raises THEN spec_type
                 ELSE Construct(spec_type.val, spec)

-----------------------------------------------------------------------------
(* The mappings the factory is called with *)

EmptyDict == [k \in {} |-> None]

\* the dicts that hold key k with a value of V, or do not hold it
Optional(k, V) == {EmptyDict} \cup {(k :> v) : v \in V}

Merge(A, B) == {a @@ b : a \in A, b \in B}

ReleaseNames == {"trusty", "xenial"}
RevisionNumbers == {1, 2}

LXCFields ==
    Merge(Optional("distribution", {"debian"}),
          Optional("releases", SeqsUpTo(ReleaseNames, MaxLen)))

DeviceFields ==
    Merge(Merge(Optional("channel", {"stable"}),
                Optional("revisions", SeqsUpTo(RevisionNumbers, MaxLen))),
          Merge(Optional("serial", {"0a1b"}), Optional("password", {"0000"})))

ProvisionSpecs ==
    Merge({"backend" :> "lxc"}, LXCFields)
    \cup Merge({"backend" :> "device"}, DeviceFields)
    \cup Merge(Optional("backend", {"qemu"}),
               {EmptyDict,
                ("releases" :> <<"trusty">>),
                ("channel" :> "stable") @@ ("revisions" :> <<1>>)})

TestSpecs == {EmptyDict} \cup {("provisioning" :> p) : p \in ProvisionSpecs}

-----------------------------------------------------------------------------
(* The filesystem.  A path is the sequence of its components. *)

Dir == [kind |-> "dir"]
File(data) == [kind |-> "file", data |-> data]

TmpRoot == <<"tmp">>                      \* tempfile.gettempdir()
source_dir == <<"pkg", "data">>           \* resource_filename(upgrade_testing, 'data')

join(dir, name) == Append(dir, name)      \* os.path.join

IsPrefix(p, q) == Len(p) <= Len(q) /\ SubSeq(q, 1, Len(p)) = p

Exists(f, p) == p \in DOMAIN f

Remove(f, paths) == [p \in DOMAIN f \ paths |-> f[p]]

Put(f, p, node) == (p :> node) @@ f

Template(name) == File(<<<<"template", name>>>>)

InitialFs ==
    (TmpRoot :> Dir) @@ (<<"pkg">> :> Dir) @@ (source_dir :> Dir)
    @@ (join(source_dir, "control") :> Template("control"))
    @@ (join(source_dir, "upgrade") :> Template("upgrade"))
    @@ (join(source_dir, "changelog") :> Template("changelog"))

\* upgrade_testing.preparation._testbed.get_testbed_storage_location, an
\* external collaborator: it returns a base path string
get_testbed_storage_location == "/var/tmp/upgrade-testing"

-----------------------------------------------------------------------------
(* The state of one prepare_test_environment call.  A step that finds an    *)
(* exception pending does nothing: the exception is propagating.            *)

NoFault == "none"
SetupSteps == {"mkdtemp", "mkstemp", "write", "makedirs", "copy_control",
               "copy_upgrade", "copy_changelog", "touch_control"}

NewRun(f, alloc, rmcalls) ==
    [fs |-> f,                     \* the filesystem
     temp_dir |-> Unbound,         \* the local variable temp_dir
     run_config_file |-> Unbound,  \* what _write_run_config returned
     exc |-> Null,                 \* the exception that is propagating
     calls |-> <<>>,               \* the filesystem calls made, in order
     allocated |-> alloc,
     rmtree_calls |-> rmcalls]

Called(st, name) == [st EXCEPT !.calls = Append(@, name)]

Fail(st, name, e) == [Called(st, name) EXCEPT !.exc = e]

RmCount(rmcalls, d) == IF d \in DOMAIN rmcalls THEN rmcalls[d] ELSE 0

-----------------------------------------------------------------------------
(* The library calls.  flt names the setup step whose call fails in this run. *)

\* tempfile.mkdtemp(): a fresh directory under the system's temporary directory
mkdtemp(st, n, flt) ==
    IF flt = "mkdtemp" THEN Fail(st, "mkdtemp", OSError("mkdtemp"))
    ELSE LET d == join(TmpRoot, "tmpdir" \o ToString(n))
         IN  [Called(st, "mkdtemp") EXCEPT !.fs = Put(@, d, Dir),
                                           !.temp_dir = d,
                                           !.allocated = @ \cup {d}]

\* a variant without dir=: the file is made in the system's temporary directory
mkstemp_default_dir(st, dir, flt) ==
    IF flt = "mkstemp" THEN Fail(st, "mkstemp", OSError("mkstemp"))
    ELSE LET file == join(TmpRoot, "tmpfile")
         IN  [Called(st, "mkstemp") EXCEPT !.fs = Put(@, file, File(<<>>)),
                                           !.run_config_file = file]

\* tempfile.mkstemp(dir=dir)[1]: a fresh empty file in dir
mkstemp(st, dir, flt) ==
    IF flt = "mkstemp" THEN Fail(st, "mkstemp", OSError("mkstemp"))
    ELSE LET file == join(dir, "tmpfile")
         IN  [Called(st, "mkstemp") EXCEPT !.fs = Put(@, file, File(<<>>)),
                                           !.run_config_file = file]

\* os.makedirs(path): path and its missing ancestors
makedirs(st, path, flt) ==
    IF flt = "makedirs" THEN Fail(st, "makedirs", OSError("makedirs"))
    ELSE LET missing == {SubSeq(path, 1, k) : k \in 1..Len(path)} \ DOMAIN st.fs
         IN  [Called(st, "makedirs") EXCEPT
                 !.fs = [q \in DOMAIN @ \cup missing |-> IF q \in missing THEN Dir ELSE @[q]]]

\* shutil.copyfile(src, dst)
copyfile(st, src, dst, step, flt) ==
    IF flt = step THEN Fail(st, step, OSError(step))
    ELSE [Called(st, step) EXCEPT !.fs = Put(@, dst, @[src])]

\* shutil.rmtree(dir): dir and everything below it
rmtree(st, dir) ==
    IF ~Exists(st.fs, dir)
    THEN Fail(st, "rmtree", [class |-> "FileNotFoundError", path |-> dir])
    ELSE [Called(st, "rmtree") EXCEPT
             !.fs = Remove(@, {q \in DOMAIN @ : IsPrefix(dir, q)}),
             !.rmtree_calls = [d \in DOMAIN @ \cup {dir} |-> RmCount(@, d) + (IF d = dir THEN 1 ELSE 0)]]

-----------------------------------------------------------------------------
(* The run-config file: a sequence of lines, a line a sequence of tokens *)

RECURSIVE Join(_, _)
\* sep.join(l)
Join(l, sep) ==
    IF Len(l) = 0 THEN ""
    ELSE IF Len(l) = 1 THEN l[1]
    ELSE l[1] \o sep \o Join(Tail(l), sep)

CommentLine(text) == <<"#", text>>

\* NAME="value"\n
AssignLine(name, value) == <<name, "=", "\"", value, "\"">>

\* the name/value pairs of a shell-sourceable text, in the order of its lines
RECURSIVE ParseConfig(_)
ParseConfig(lines) ==
    IF lines = <<>> THEN <<>>
    ELSE LET line == Head(lines)
         IN  IF line[1] = "#" THEN ParseConfig(Tail(lines))
             ELSE <<[name |-> line[1], value |-> line[4]]>> \o ParseConfig(Tail(lines))

-----------------------------------------------------------------------------
(* upgrade_testing/preparation/_hostprep.py *)

TestrunTempFiles(run_config_file, testrun_tmp_dir, unbuilt_dir) ==
    [run_config_file |-> run_config_file,
     testrun_tmp_dir |-> testrun_tmp_dir,
     unbuilt_dir |-> unbuilt_dir]

\* a variant that writes the initial state for both system states
config_lines_initial_twice(suite, testbed_location, initial, final) ==
    << CommentLine(" Auto Upgrade Test Configuration"),
       AssignLine("PRE_TEST_LOCATION", testbed_location \o "/pre_scripts"),
       AssignLine("POST_TEST_LOCATION", testbed_location \o "/post_scripts"),
       AssignLine("PRE_TESTS_TO_RUN", Join(suite.pre_upgrade_scripts, " ")),
       AssignLine("POST_TESTS_TO_RUN", Join(suite.post_upgrade_tests, " ")),
       AssignLine("INITIAL_SYSTEM_STATE", initial),
       AssignLine("POST_SYSTEM_STATE", initial) >>

\* the text _write_run_config writes into the file
config_lines(suite, testbed_location, initial, final) ==
    LET pre_tests == Join(suite.pre_upgrade_scripts, " ")
        post_tests == Join(suite.post_upgrade_tests, " ")
    IN  << CommentLine(" Auto Upgrade Test Configuration"),
           AssignLine("PRE_TEST_LOCATION", testbed_location \o "/pre_scripts"),
           AssignLine("POST_TEST_LOCATION", testbed_location \o "/post_scripts"),
           AssignLine("PRE_TESTS_TO_RUN", pre_tests),
           AssignLine("POST_TESTS_TO_RUN", post_tests),
           AssignLine("INITIAL_SYSTEM_STATE", initial),
           AssignLine("POST_SYSTEM_STATE", final) >>

_write_run_config(st, suite, flt) ==
    IF st.exc # Null THEN st
    ELSE LET s1 == mkstemp(st, st.temp_dir, flt)
             initial == initial_state(suite.provisioning)
             final == final_state(suite.provisioning)
         IN  IF s1.exc # Null THEN s1
             ELSE IF flt = "write" THEN Fail(s1, "write", OSError("write"))
             ELSE IF initial.raises THEN Fail(s1, "write", initial.exc)
             ELSE IF final.raises THEN Fail(s1, "write", final.exc)
             ELSE [Called(s1, "write") EXCEPT
                      !.fs = Put(@, s1.run_config_file,
                                 File(config_lines(suite, get_testbed_storage_location,
                                                   initial.val, final.val)))]

\* the nested helper of _create_autopkg_details
_copy_file(st, dest, name, flt) ==
    IF st.exc # Null THEN st
    ELSE copyfile(st, join(source_dir, name), join(dest, name), "copy_" \o name, flt)

_create_autopkg_details(st, flt) ==
    IF st.exc # Null THEN st
    ELSE LET dir_tree == join(st.temp_dir, "debian")
             test_dir_tree == join(dir_tree, "tests")
             s1 == makedirs(st, test_dir_tree, flt)
             s2 == _copy_file(s1, test_dir_tree, "control", flt)
             s3 == _copy_file(s2, test_dir_tree, "upgrade", flt)
             s4 == _copy_file(s3, dir_tree, "changelog", flt)
             dummy_control == join(dir_tree, "control")
         IN  IF s4.exc # Null THEN s4
             ELSE IF flt = "touch_control" THEN Fail(s4, "touch_control", OSError("touch_control"))
             ELSE [Called(s4, "touch_control") EXCEPT
                      !.fs = IF Exists(@, dummy_control) THEN @
                             ELSE Put(@, dummy_control, File(<<>>))]

_cleanup_dir(st, dir) == rmtree(st, dir)

\* the try block of prepare_test_environment, up to the yield
prepare_setup(st, suite, n, flt) ==
    LET s1 == mkdtemp(st, n, flt)
        s2 == _write_run_config(s1, suite, flt)
    IN  _create_autopkg_details(s2, flt)

\* a variant without try/finally: the cleanup follows the yield and runs only
\* when nothing is propagating
prepare_finally_no_try(st, e) ==
    IF e # Null THEN [st EXCEPT !.exc = e]
    ELSE IF st.temp_dir = Unbound
    THEN Fail(st, "finally", UnboundLocalError("temp_dir"))
    ELSE _cleanup_dir(st, st.temp_dir)

\* the finally block of prepare_test_environment; e is the exception that is
\* propagating (Null on a normal exit).  An exception raised here replaces it.
prepare_finally(st, e) ==
    LET pending == [st EXCEPT !.exc = e]
    IN  IF st.temp_dir = Unbound
        THEN Fail(pending, "finally", UnboundLocalError("temp_dir"))
        ELSE _cleanup_dir(pending, st.temp_dir)

-----------------------------------------------------------------------------
(* The test suites prepare_test_environment is called with: script lists    *)
(* around a provisioning specification the factory built                    *)

PreScriptNames == {"pre_a", "pre_b"}
PostTestNames == {"post_a"}

TestSuite(pre, post, prov) ==
    [pre_upgrade_scripts |-> pre, post_upgrade_tests |-> post, provisioning |-> prov]

SuiteProvisionSpecs ==
    { ("backend" :> "lxc") @@ ("releases" :> <<"trusty", "xenial">>),
      ("backend" :> "lxc") @@ ("releases" :> <<"xenial">>) @@ ("distribution" :> "debian"),
      ("backend" :> "device") @@ ("channel" :> "stable") @@ ("revisions" :> <<1, 2>>) }

TestSuites ==
    { TestSuite(pre, post, from_provisionspec(p).val) :
        pre \in SeqsUpTo(PreScriptNames, MaxScripts),
        post \in SeqsUpTo(PostTestNames, MaxScripts),
        p \in SuiteProvisionSpecs }

NoRun == [temp_dir |-> Unbound, run_config_file |-> Unbound, calls |-> <<>>]

\* the generator's locals and the calls it has made
RunOf(st) == [temp_dir |-> st.temp_dir, run_config_file |-> st.run_config_file,
              calls |-> st.calls]

\* the state a resumed generator works on
Resume == [NewRun(fs, allocated, rmtree_calls) EXCEPT
              !.temp_dir = run.temp_dir,
              !.run_config_file = run.run_config_file,
              !.calls = run.calls]

BodyError == [class |-> "RuntimeError", msg |-> "raised in the scope body"]

-----------------------------------------------------------------------------
(* The factory: initial state and actions *)

InitIdle ==
    /\ entry = None
    /\ arg = Null
    /\ provisioning = Null
    /\ raised = Null
    /\ fs = InitialFs
    /\ run = NoRun
    /\ yielded = Null
    /\ fault = NoFault
    /\ body_exc = Null
    /\ allocated = {}
    /\ rmtree_calls = [d \in {} |-> 0]
    /\ runs = 0

Init ==
    /\ pc = "start"
    /\ testsuite = Null
    /\ InitIdle

\* what a factory call leaves: the object, or the exception at the caller
Constructed(name, spec, result) ==
    /\ entry' = name
    /\ arg' = spec
    /\ provisioning' = IF result.raises THEN Null ELSE result.val
    /\ raised' = IF result.raises THEN result.exc ELSE Null
    /\ pc' = IF result.raises THEN "failed" ELSE "constructed"
    /\ UNCHANGED prepVars

\* ProvisionSpecification.from_testspec(spec)
FromTestspec ==
    /\ pc = "start"
    /\ \E spec \in TestSpecs :
         \E result \in {from_testspec(spec)} : Constructed("from_testspec", spec, result)

\* ProvisionSpecification.from_provisionspec(spec)
FromProvisionspec ==
    /\ pc = "start"
    /\ \E spec \in ProvisionSpecs :
         \E result \in {from_provisionspec(spec)} :
             Constructed("from_provisionspec", spec, result)

Next == FromTestspec \/ FromProvisionspec

Spec == Init /\ [][Next]_vars

-----------------------------------------------------------------------------
(* The preparer: initial state and actions.  Each call's result is bound    *)
(* once (\E over a singleton) and then assigned to the variables.           *)

InitPrep ==
    /\ pc = "ready"
    /\ testsuite \in TestSuites
    /\ InitIdle

\* with prepare_test_environment(testsuite): the generator runs to its yield,
\* or setup raises, the finally block runs and the exception reaches the caller
Enter ==
    /\ pc = "ready"
    /\ runs < MaxRuns
    /\ \E flt \in SetupSteps \cup {NoFault} :
         \E st \in {prepare_setup(NewRun(fs, allocated, rmtree_calls), testsuite,
                                  runs + 1, flt)} :
         \E end \in {IF st.exc = Null THEN st ELSE prepare_finally(st, st.exc)} :
              /\ fault' = flt
              /\ fs' = end.fs
              /\ allocated' = end.allocated
              /\ rmtree_calls' = end.rmtree_calls
              /\ run' = RunOf(end)
              /\ raised' = end.exc
              /\ yielded' = IF st.exc = Null
                            THEN TestrunTempFiles(st.run_config_file, st.temp_dir,
                                                  st.temp_dir)
                            ELSE Null
              /\ pc' = IF st.exc = Null THEN "in_scope" ELSE "ready"
    /\ runs' = runs + 1
    /\ body_exc' = Null
    /\ UNCHANGED <<provVars, testsuite>>

\* the scope body leaves a file of its own in the run directory
BodyWrite ==
    /\ pc = "in_scope"
    /\ ~Exists(fs, join(yielded.testrun_tmp_dir, "results"))
    /\ fs' = Put(fs, join(yielded.testrun_tmp_dir, "results"), File(<<>>))
    /\ UNCHANGED <<pc, provVars, raised, testsuite, run, yielded, fault,
                   body_exc, allocated, rmtree_calls, runs>>

\* what leaving the scope does: the generator is resumed (e = Null) or e is
\* thrown into it at the yield; either way the finally block runs
Leave(e) ==
    \E end \in {prepare_finally(Resume, e)} :
        /\ fs' = end.fs
        /\ allocated' = end.allocated
        /\ rmtree_calls' = end.rmtree_calls
        /\ run' = RunOf(end)
        /\ raised' = end.exc
        /\ body_exc' = e
        /\ pc' = "ready"
        /\ UNCHANGED <<provVars, testsuite, yielded, fault, runs>>

\* the scope body completes
ExitNormal == pc = "in_scope" /\ Leave(Null)

\* the scope body raises
ExitRaise == pc = "in_scope" /\ Leave(BodyError)

NextPrep == Enter \/ BodyWrite \/ ExitNormal \/ ExitRaise

SpecPrep == InitPrep /\ [][NextPrep]_vars

-----------------------------------------------------------------------------
(* Properties of the factory, stated for Spec *)

\* the factory has been called and found the provisioning mapping
HasConfig ==
    \/ entry = "from_provisionspec"
    \/ entry = "from_testspec" /\ "provisioning" \in DOMAIN arg

\* the mapping the variant's constructor is given
Config == IF entry = "from_testspec" THEN arg["provisioning"] ELSE arg

HasKey(k) == HasConfig /\ k \in DOMAIN Config

BackendIs(b) == HasKey("backend") /\ Config["backend"] = b

\* e is a ValueError whose message names key k
NamesMissingKey(e, k) ==
    e.class = "ValueError" /\ e.msg = "Missing config detail: '" \o k \o "'"

IsLXC == pc = "constructed" /\ provisioning.class = "LXCProvisionSpecification"
IsDevice == pc = "constructed" /\ provisioning.class = "DeviceProvisionSpecification"

\* the outcome of the call is the outcome r of a constructor
OutcomeIs(r) ==
    IF r.raises THEN pc = "failed" /\ raised = r.exc
    ELSE pc = "constructed" /\ provisioning = r.val

\* C4: constructing a Device specification from a mapping without `channel`
\* fails with a ValueError that names channel, and from a mapping with
\* `channel` but without `revisions` with a ValueError that names revisions;
\* no KeyError reaches the caller.
C4_DeviceMissingFieldIsValueError ==
    BackendIs("device") =>
        /\ ~HasKey("channel") =>
               pc = "failed" /\ NamesMissingKey(raised, "channel")
        /\ HasKey("channel") /\ ~HasKey("revisions") =>
               pc = "failed" /\ NamesMissingKey(raised, "revisions")

C4_Witness ==
    /\ entry = "from_testspec"
    /\ BackendIs("device") /\ HasKey("channel") /\ ~HasKey("revisions")
    /\ pc = "failed"

\* C5: constructing a Container (lxc) specification from a mapping without
\* `releases` fails with a ValueError that names releases as the missing key.
C5_LXCMissingReleasesIsValueError ==
    BackendIs("lxc") /\ ~HasKey("releases") =>
        pc = "failed" /\ NamesMissingKey(raised, "releases")

\* C6: both entry points dispatch on the backend name through one closed
\* table: "lxc" constructs the Container variant and "device" the Device
\* variant from the provisioning mapping they pass, and every other name
\* fails with a lookup error (KeyError).
C6_DispatchIsClosedTable ==
    HasKey("backend") =>
        LET b == Config["backend"]
        IN  /\ b = "lxc" => OutcomeIs(LXC_init(Config)) /\ ~IsDevice
            /\ b = "device" => OutcomeIs(Device_init(Config)) /\ ~IsLXC
            /\ b \notin {"lxc", "device"} => pc = "failed" /\ raised = KeyError(b)

C6_Witness ==
    /\ entry = "from_testspec"
    /\ BackendIs("device")
    /\ IsDevice

\* C7: a Container specification constructed from a mapping with a non-empty
\* releases list R has system_states = R, initial_state = R[0],
\* final_state = R[-1], and as distribution the mapping's, "ubuntu" when the
\* mapping has none.
C7_ContainerStates ==
    IsLXC =>
        LET R == Config["releases"]
        IN  /\ Len(R) > 0
            /\ system_states(provisioning) = Return(R)
            /\ initial_state(provisioning) = Return(R[1])
            /\ final_state(provisioning) = Return(R[Len(R)])
            /\ provisioning.distribution =
                   IF HasKey("distribution") THEN Config["distribution"] ELSE "ubuntu"

C7_Witness ==
    /\ IsLXC
    /\ ~HasKey("distribution")
    /\ Len(Config["releases"]) = 2
    /\ Config["releases"][1] # Config["releases"][2]

\* the text "<channel>:<revision>", written out for the revisions of the model
StateIdText(channel, rev) ==
    CASE channel = "stable" /\ rev = 1 -> "stable:1"
      [] channel = "stable" /\ rev = 2 -> "stable:2"

\* C8: a Device specification constructed with channel C and a non-empty
\* revisions list V has as many system_states as V has elements,
\* system_states[i] is "C:V[i]", initial_state is "C:V[0]" and final_state is
\* "C:V[-1]": the first and the last of system_states.
C8_DeviceStates ==
    IsDevice =>
        LET C == Config["channel"]
            V == Config["revisions"]
            states == system_states(provisioning)
        IN  /\ Len(V) > 0
            /\ ~states.raises
            /\ Len(states.val) = Len(V)
            /\ \A i \in 1..Len(V) : states.val[i] = StateIdText(C, V[i])
            /\ initial_state(provisioning) = Return(StateIdText(C, V[1]))
            /\ final_state(provisioning) = Return(StateIdText(C, V[Len(V)]))
            /\ initial_state(provisioning).val = states.val[1]
            /\ final_state(provisioning).val = states.val[Len(V)]

C8_Witness ==
    /\ IsDevice
    /\ Config["revisions"] = <<1, 2>>
    /\ final_state(provisioning) = Return("stable:2")

\* C9: no specification with zero system states is obtained: construction
\* from an empty `releases` or an empty `revisions` list fails, and a
\* constructed specification has at least one system state, of which
\* initial_state is the first and final_state the last.
C9_NoEmptySpecification ==
    /\ BackendIs("lxc") /\ HasKey("releases") /\ Len(Config["releases"]) = 0
           => pc = "failed"
    /\ BackendIs("device") /\ HasKey("revisions") /\ Len(Config["revisions"]) = 0
           => pc = "failed"
    /\ pc = "constructed" =>
           LET states == system_states(provisioning)
           IN  /\ ~states.raises
               /\ Len(states.val) >= 1
               /\ initial_state(provisioning) = Return(states.val[1])
               /\ final_state(provisioning) = Return(states.val[Len(states.val)])

C9_Witness ==
    /\ BackendIs("lxc") /\ HasKey("releases") /\ Len(Config["releases"]) = 0
    /\ pc = "failed"
    /\ raised = IndexError

-----------------------------------------------------------------------------
(* Properties of the preparer, stated for SpecPrep *)

\* a prepare_test_environment call has finished: its scope was left, or its
\* setup raised
CallFinished == pc = "ready" /\ runs > 0

YieldedPaths == {yielded.run_config_file, yielded.testrun_tmp_dir, yielded.unbuilt_dir}

Below(d) == {p \in DOMAIN fs : IsPrefix(d, p)}

\* the number of times name occurs in the calls of the current run
Times(name) == Cardinality({i \in 1..Len(run.calls) : run.calls[i] = name})

\* C1: once the scope of a call whose setup succeeded has been left, by the
\* body completing or by an exception raised in it, none of the three paths
\* that were yielded exists.
C1_YieldedPathsGoneAfterExit ==
    CallFinished /\ yielded # Null => \A p \in YieldedPaths : ~Exists(fs, p)

C1_Witness ==
    /\ CallFinished
    /\ yielded # Null
    /\ body_exc = BodyError
    /\ Times("rmtree") = 1

\* C2: every temporary directory a call allocated is removed exactly once on
\* every exit path (normal return, an exception of the body, a setup failure
\* after the directory was created): no allocated directory remains once the
\* call has finished, and while a scope is open only its own directory.
C2_TempDirRemovedExactlyOnce ==
    \A d \in allocated :
        IF pc = "in_scope" /\ d = run.temp_dir
        THEN RmCount(rmtree_calls, d) = 0 /\ Exists(fs, d)
        ELSE RmCount(rmtree_calls, d) = 1 /\ Below(d) = {}

C2_Witness ==
    /\ CallFinished
    /\ fault = "copy_upgrade"
    /\ run.temp_dir \in allocated
    /\ RmCount(rmtree_calls, run.temp_dir) = 1

\* C3: a filesystem failure in a setup step (creating the temporary
\* directory, creating or writing the run-config file, creating the debian
\* tree, copying a template) reaches the caller as that same failure, and no
\* step is retried.
C3_SetupFailureReachesCallerUnmodified ==
    CallFinished /\ fault # NoFault =>
        /\ raised = OSError(fault)
        /\ \A step \in SetupSteps : Times(step) <= 1

\* sep-joined text, built from the end of the list
RECURSIVE SpaceJoined(_)
SpaceJoined(l) ==
    IF l = <<>> THEN ""
    ELSE IF Len(l) = 1 THEN l[1]
    ELSE SpaceJoined(SubSeq(l, 1, Len(l) - 1)) \o " " \o l[Len(l)]

ConfigNames ==
    {"PRE_TEST_LOCATION", "POST_TEST_LOCATION", "PRE_TESTS_TO_RUN",
     "POST_TESTS_TO_RUN", "INITIAL_SYSTEM_STATE", "POST_SYSTEM_STATE"}

ExpectedValue(name) ==
    CASE name = "PRE_TEST_LOCATION" -> get_testbed_storage_location \o "/pre_scripts"
      [] name = "POST_TEST_LOCATION" -> get_testbed_storage_location \o "/post_scripts"
      [] name = "PRE_TESTS_TO_RUN" -> SpaceJoined(testsuite.pre_upgrade_scripts)
      [] name = "POST_TESTS_TO_RUN" -> SpaceJoined(testsuite.post_upgrade_tests)
      [] name = "INITIAL_SYSTEM_STATE" -> initial_state(testsuite.provisioning).val
      [] name = "POST_SYSTEM_STATE" -> final_state(testsuite.provisioning).val

\* C10: the run-config file, read as name/value pairs, defines exactly the
\* six variables, each once: the two locations are the testbed storage
\* location followed by /pre_scripts and /post_scripts, the two test lists
\* are the space-joined script lists of the test suite, and the two system
\* states are initial_state and final_state of its provisioning specification.
C10_RunConfigHasTheSixVariables ==
    pc = "in_scope" =>
        LET pairs == ParseConfig(fs[yielded.run_config_file].data)
        IN  /\ Len(pairs) = 6
            /\ {pairs[i].name : i \in 1..Len(pairs)} = ConfigNames
            /\ \A i \in 1..Len(pairs) : pairs[i].value = ExpectedValue(pairs[i].name)

C10_Witness ==
    /\ pc = "in_scope"
    /\ testsuite.pre_upgrade_scripts = <<"pre_b", "pre_a">>
    /\ testsuite.post_upgrade_tests = <<"post_a">>
    /\ testsuite.provisioning.class = "DeviceProvisionSpecification"
    /\ [name |-> "POST_SYSTEM_STATE", value |-> "stable:2"]
           \in {ParseConfig(fs[yielded.run_config_file].data)[i] : i \in 1..6}
    /\ [name |-> "PRE_TESTS_TO_RUN", value |-> "pre_b pre_a"]
           \in {ParseConfig(fs[yielded.run_config_file].data)[i] : i \in 1..6}

=============================================================================
